---------------------------- MODULE Spec2Model ----------------------------
(***************************************************************************)
(* The Toolforge volume admission webhook: VolumeAdmission.HandleAdmission *)
(* of server/admission.go, its helpers, and the JSON-Patch consumer that   *)
(* applies the patch it returns.                                           *)
(*                                                                         *)
(* Strings the code inspects character by character (the namespace) are    *)
(* sequences of one-character strings; all other strings are atoms.        *)
(* A Go slice or map is a record [isNil, elems]: nil and empty differ.     *)
(* A JSON array or object member is a record [present, items].             *)
(***************************************************************************)
EXTENDS Integers, Sequences, FiniteSets, TLC

VARIABLES
    Volumes,        \* admission.Volumes, the policy shared by all requests
    marshalFails,   \* whether json.Marshal of the patch list returns an error
    review,         \* per worker: the AdmissionReview [request, response]
    pc,             \* per worker: position in HandleAdmission
    local,          \* per worker: HandleAdmission's locals (pod, mountConfig, patches)
    prev            \* per worker: the review of the first invocation, once reinvoked

vars == <<Volumes, marshalFails, review, pc, local, prev>>

-----------------------------------------------------------------------------
(* Bounds of the model *)

MaxVolumes == 2
MaxContainers == 2

Workers == {"w1", "w2"}

-----------------------------------------------------------------------------
(* Constants of admission.go *)

MountConfigLabel == "toolforge.org/mount-storage"
MountAll == "all"
MountNone == "none"
ToolPrefix == <<"t", "o", "o", "l", "-">>
HomeVolumeName == "home"
HomeVolumePath == "/data/project"
NfsMountedKey == "kubernetes.wmcloud.org/nfs-mounted"
NfsMountedSegment == "kubernetes.wmcloud.org~1nfs-mounted"
PatchTypeJSONPatch == "JSONPatch"

-----------------------------------------------------------------------------
(* Go strings package, on sequences of characters *)

\* a prefix test that accepts the prefix anywhere in s
HasPrefixAnywhere(s, prefix) ==
    \E i \in 1..(Len(s) - Len(prefix) + 1) : SubSeq(s, i, i + Len(prefix) - 1) = prefix

HasPrefix(s, prefix) ==
    /\ Len(s) >= Len(prefix)
    /\ SubSeq(s, 1, Len(prefix)) = prefix

\* strings.Index: 1-based position of the first occurrence of substr, 0 if none
Index(s, substr) ==
    LET hits == {i \in 1..(Len(s) - Len(substr) + 1) :
                    SubSeq(s, i, i + Len(substr) - 1) = substr}
    IN  IF hits = {} THEN 0 ELSE CHOOSE i \in hits : \A j \in hits : i <= j

RECURSIVE Replace(_, _, _, _)
\* strings.Replace(s, old, new, n) for a non-empty old; n < 0 replaces all
Replace(s, old, new, n) ==
    LET i == Index(s, old)
    IN  IF n = 0 \/ i = 0
        THEN s
        ELSE SubSeq(s, 1, i - 1) \o new
             \o Replace(SubSeq(s, i + Len(old), Len(s)), old, new, n - 1)

RECURSIVE ConcatAll(_)
\* the appends of one loop, in iteration order
ConcatAll(ss) ==
    IF ss = <<>> THEN <<>> ELSE Head(ss) \o ConcatAll(Tail(ss))


-----------------------------------------------------------------------------
(* Values: Go slices and maps, JSON members, patch payloads *)

Missing == [present |-> FALSE, items |-> <<>>]
Member(items) == [present |-> TRUE, items |-> items]

NoHostPath == [set |-> FALSE, path |-> "", type |-> ""]
HostPath(path, type) == [set |-> TRUE, path |-> path, type |-> type]

EmptyArrayValue == [kind |-> "array"]
EmptyObjectValue == [kind |-> "object"]
OmittedValue == [kind |-> "omitted"]
StringValue(s) == [kind |-> "string", s |-> s]
VolumeValue(name, hostPath) == [kind |-> "volume", name |-> name, hostPath |-> hostPath]
VolumeMountValue(mountPath, name, readOnly) ==
    [kind |-> "volumeMount", mountPath |-> mountPath, name |-> name, readOnly |-> readOnly]
EnvVarValue(name, value) == [kind |-> "envVar", name |-> name, value |-> value]

\* PatchOperation{Op, Path, Value}; Path is the JSON Pointer, one string per segment
PatchOperation(op, path, value) == [Op |-> op, Path |-> path, Value |-> value]

\* fmt.Sprintf("%d", i) of a Go index; TLA+ sequences start at 1
Idx(i) == ToString(i - 1)

NilBytes == [isNil |-> TRUE, json |-> "", ops |-> <<>>]
NoResponse == [set |-> FALSE]

-----------------------------------------------------------------------------
(* json.Unmarshal of req.Object.Raw into corev1.Pod *)

UnmarshalSlice(member) == [isNil |-> ~member.present, elems |-> member.items]

UnmarshalContainer(c) ==
    [Env |-> UnmarshalSlice(c.env),
     WorkingDir |-> c.workingDir,
     VolumeMounts |-> UnmarshalSlice(c.volumeMounts)]

Unmarshal(raw) ==
    IF ~raw.wellFormed
    THEN [err |-> TRUE, message |-> <<"unexpected end of JSON input">>]
    ELSE [err |-> FALSE,
          pod |-> [Labels |-> raw.doc.labels,
                   Volumes |-> UnmarshalSlice(raw.doc.volumes),
                   Containers |-> [i \in 1..Len(raw.doc.containers) |->
                                      UnmarshalContainer(raw.doc.containers[i])],
                   NodeSelector |-> UnmarshalSlice(raw.doc.nodeSelector)]]

-----------------------------------------------------------------------------
(* Helpers of admission.go *)

getLabelOrDefault(pod, label, defaultValue) ==
    IF label \in DOMAIN pod.Labels THEN pod.Labels[label] ELSE defaultValue

hasMountByPath(container, path) ==
    \E k \in 1..Len(container.VolumeMounts.elems) :
        container.VolumeMounts.elems[k].mountPath = path

hasVolumeByName(pod, name) ==
    \E k \in 1..Len(pod.Volumes.elems) : pod.Volumes.elems[k].name = name

hasEnvVarSet(container, envVar) ==
    \E k \in 1..Len(container.Env.elems) : container.Env.elems[k].name = envVar

-----------------------------------------------------------------------------
(* The responses of HandleAdmission *)

DenyResponse(uid, message) ==
    [set |-> TRUE, UID |-> uid, Allowed |-> FALSE, PatchType |-> "",
     Patch |-> NilBytes, Message |-> message]

AllowResponse(uid, bytes, message) ==
    [set |-> TRUE, UID |-> uid, Allowed |-> TRUE, PatchType |-> PatchTypeJSONPatch,
     Patch |-> bytes, Message |-> message]

\* json.Marshal(patches): a nil slice encodes as null, an error returns nil bytes
Marshal(patches, fails) ==
    IF fails
    THEN [err |-> TRUE, bytes |-> NilBytes, message |-> <<"json: unsupported value">>]
    ELSE [err |-> FALSE,
          bytes |-> IF patches = <<>>
                    THEN [isNil |-> FALSE, json |-> "null", ops |-> <<>>]
                    ELSE [isNil |-> FALSE, json |-> "array", ops |-> patches]]

-----------------------------------------------------------------------------
(* HandleAdmission, in the order of its code *)

mountConfigOf(pod) == getLabelOrDefault(pod, MountConfigLabel, MountAll)

\* a label check that forgets MountNone
validMountConfigAllOnly(mountConfig) == mountConfig = MountAll

validMountConfig(mountConfig) == mountConfig = MountAll \/ mountConfig = MountNone

\* the hostPath test with the two comparisons joined by "and"
deniedHostPathBoth(volume) ==
    /\ volume.hostPath.set
    /\ (volume.name # HomeVolumeName /\ volume.hostPath.path # HomeVolumePath)

\* the test of the hostPath loop: a hostPath volume other than home at /data/project
deniedHostPath(volume) ==
    /\ volume.hostPath.set
    /\ (volume.name # HomeVolumeName \/ volume.hostPath.path # HomeVolumePath)

\* position of the first volume the loop denies, 0 when it denies none
firstDeniedVolume(pod) ==
    LET bad == {k \in 1..Len(pod.Volumes.elems) : deniedHostPath(pod.Volumes.elems[k])}
    IN  IF bad = {} THEN 0 ELSE CHOOSE k \in bad : \A j \in bad : k <= j

hostPathMessage(pod, k) ==
    <<"No hostPath volumes allowed, got one under /spec/volumes/", Idx(k),
      " Name:", pod.Volumes.elems[k].name,
      " HostPath:", pod.Volumes.elems[k].hostPath.path>>

\* the initialization emitted for a nil slice only
volumesInitNilOnly(pod) ==
    IF ~pod.Volumes.isNil
    THEN <<>>
    ELSE <<PatchOperation("add", <<"spec", "volumes">>, EmptyArrayValue)>>

\* the else branch of the volume check: initialize /spec/volumes if it's not there
volumesInit(pod) ==
    IF Len(pod.Volumes.elems) # 0
    THEN <<>>
    ELSE <<PatchOperation("add", <<"spec", "volumes">>, EmptyArrayValue)>>

\* decoding and the three denials; [denied, response] or [denied, pod, mountConfig, patches]
validate(request) ==
    LET decoded == Unmarshal(request.Object)
        pod == decoded.pod
        mountConfig == mountConfigOf(pod)
        k == firstDeniedVolume(pod)
    IN  IF decoded.err
        THEN [denied |-> TRUE, response |-> DenyResponse(request.UID, decoded.message)]
        ELSE IF ~validMountConfig(mountConfig)
        THEN [denied |-> TRUE,
              response |-> DenyResponse(request.UID,
                              <<"Invalid value for ", MountConfigLabel, " label">>)]
        ELSE IF ~HasPrefix(request.Namespace, ToolPrefix)
        THEN [denied |-> TRUE,
              response |-> DenyResponse(request.UID,
                              <<"Only tools can have tool volumes mounted to them">>)]
        ELSE IF k # 0
        THEN [denied |-> TRUE,
              response |-> DenyResponse(request.UID, hostPathMessage(pod, k))]
        ELSE [denied |-> FALSE, pod |-> pod, mountConfig |-> mountConfig,
              patches |-> volumesInit(pod)]

\* the MountNone branch: the assignments to review.Response in program order; the
\* branch of a failed Marshal does not return, so the last assignment is what is left
respondNone(uid, patches, fails) ==
    LET m == Marshal(patches, fails)
        response == AllowResponse(uid, m.bytes, <<"No volumes requested">>)
        assigned == (IF m.err THEN <<DenyResponse(uid, m.message)>> ELSE <<>>)
                    \o <<response>>
    IN  assigned[Len(assigned)]

\* first container loop: volumeMounts must exist before anything is appended to it
volumeMountsInit(pod) ==
    ConcatAll([i \in 1..Len(pod.Containers) |->
        IF Len(pod.Containers[i].VolumeMounts.elems) = 0
        THEN <<PatchOperation("add", <<"spec", "containers", Idx(i), "volumeMounts">>,
                              EmptyArrayValue)>>
        ELSE <<>>])

\* the mounts of one policy volume, one per container that has no mount at its path
volumeMounts(pod, volume) ==
    ConcatAll([i \in 1..Len(pod.Containers) |->
        IF hasMountByPath(pod.Containers[i], volume.Path)
        THEN <<>>
        ELSE <<PatchOperation("add", <<"spec", "containers", Idx(i), "volumeMounts", "-">>,
                   VolumeMountValue(volume.Path, volume.Name, volume.ReadOnly))>>])

\* the loop over admission.Volumes
volumePatches(volumes, pod) ==
    ConcatAll([v \in 1..Len(volumes) |->
        IF hasVolumeByName(pod, volumes[v].Name)
        THEN <<>>
        ELSE <<PatchOperation("add", <<"spec", "volumes", "-">>,
                   VolumeValue(volumes[v].Name,
                               HostPath(volumes[v].Path, volumes[v].Type)))>>
             \o volumeMounts(pod, volumes[v])])

\* the prefix replaced wherever it occurs
toolNameReplaceAll(namespace) == Replace(namespace, ToolPrefix, <<>>, -1)

toolName(namespace) == Replace(namespace, ToolPrefix, <<>>, 1)

toolHome(namespace) == <<"/data/project/">> \o toolName(namespace)

envInit(container, i) ==
    IF container.Env.isNil
    THEN <<PatchOperation("add", <<"spec", "containers", Idx(i), "env">>, EmptyArrayValue)>>
    ELSE <<>>

\* NO_HOME forgotten
skipSettingHomeOnlyHome(container) == hasEnvVarSet(container, "HOME")

skipSettingHome(container) ==
    hasEnvVarSet(container, "HOME") \/ hasEnvVarSet(container, "NO_HOME")

workingDirRemoval(container, i) ==
    IF hasEnvVarSet(container, "NO_HOME") /\ container.WorkingDir # ""
    THEN <<PatchOperation("remove", <<"spec", "containers", Idx(i), "workingDir">>,
                          OmittedValue)>>
    ELSE <<>>

homePatch(container, i, namespace) ==
    IF ~skipSettingHome(container)
    THEN <<PatchOperation("add", <<"spec", "containers", Idx(i), "env", "-">>,
                          EnvVarValue("HOME", toolHome(namespace)))>>
    ELSE <<>>

toolDataDirPatch(i, namespace) ==
    <<PatchOperation("add", <<"spec", "containers", Idx(i), "env", "-">>,
                     EnvVarValue("TOOL_DATA_DIR", toolHome(namespace)))>>

\* the env initialization emitted after the appends it is meant to prepare
envPatchesInitLast(pod, namespace) ==
    ConcatAll([i \in 1..Len(pod.Containers) |->
        workingDirRemoval(pod.Containers[i], i)
        \o homePatch(pod.Containers[i], i, namespace)
        \o toolDataDirPatch(i, namespace)
        \o envInit(pod.Containers[i], i)])

\* second container loop
envPatches(pod, namespace) ==
    ConcatAll([i \in 1..Len(pod.Containers) |->
        envInit(pod.Containers[i], i)
        \o workingDirRemoval(pod.Containers[i], i)
        \o homePatch(pod.Containers[i], i, namespace)
        \o toolDataDirPatch(i, namespace)])

\* the key added only together with the nodeSelector itself
nodeSelectorPatchesOnlyWhenNil(pod) ==
    IF pod.NodeSelector.isNil
    THEN <<PatchOperation("add", <<"spec", "nodeSelector">>, EmptyObjectValue),
           PatchOperation("add", <<"spec", "nodeSelector", NfsMountedSegment>>,
                          StringValue("true"))>>
    ELSE <<>>

nodeSelectorPatches(pod) ==
    (IF pod.NodeSelector.isNil
     THEN <<PatchOperation("add", <<"spec", "nodeSelector">>, EmptyObjectValue)>>
     ELSE <<>>)
    \o
    (IF pod.NodeSelector.isNil \/ NfsMountedKey \notin DOMAIN pod.NodeSelector.elems
     THEN <<PatchOperation("add", <<"spec", "nodeSelector", NfsMountedSegment>>,
                           StringValue("true"))>>
     ELSE <<>>)

\* the end of the MountAll path: a failed Marshal returns the denial
respondAll(uid, patches, fails) ==
    LET m == Marshal(patches, fails)
    IN  IF m.err
        THEN DenyResponse(uid, m.message)
        ELSE AllowResponse(uid, m.bytes, <<"Volumes mounted">>)

\* the env loop run before the loop over admission.Volumes
buildAllEnvFirst(volumes, pod, namespace) ==
    volumeMountsInit(pod)
    \o envPatches(pod, namespace)
    \o volumePatches(volumes, pod)
    \o nodeSelectorPatches(pod)

\* the patch list of the MountAll path after the volumes initialization
buildAll(volumes, pod, namespace) ==
    volumeMountsInit(pod)
    \o volumePatches(volumes, pod)
    \o envPatches(pod, namespace)
    \o nodeSelectorPatches(pod)

\* review.Response after HandleAdmission(review)
HandleAdmission(volumes, request, fails) ==
    LET v == validate(request)
    IN  IF v.denied THEN v.response
        ELSE IF v.mountConfig = MountNone
        THEN respondNone(request.UID, v.patches, fails)
        ELSE respondAll(request.UID,
                        v.patches \o buildAll(volumes, v.pod, request.Namespace), fails)

\* the policy filtered in place: the volumes the pod already has are dropped from it
volumesAfterFilteredInPlace(volumes, request) ==
    IF request.Object.wellFormed
    THEN SelectSeq(volumes,
                   LAMBDA v : ~hasVolumeByName(Unmarshal(request.Object).pod, v.Name))
    ELSE volumes

\* admission.Volumes after HandleAdmission: the loop only reads it
volumesAfter(volumes, request) == volumes

-----------------------------------------------------------------------------
(* The consumer of the response: RFC 6902 application of the patch to the pod *)

\* the patch document as the consumer decodes it: null is the empty patch
DecodePatch(bytes) == IF bytes.json = "array" THEN bytes.ops ELSE <<>>

Unescape(segment) == IF segment = NfsMountedSegment THEN NfsMountedKey ELSE segment

\* the container a path segment names, 0 when there is none
containerAt(doc, segment) ==
    LET hit == {i \in 1..Len(doc.containers) : Idx(i) = segment}
    IN  IF hit = {} THEN 0 ELSE CHOOSE i \in hit : TRUE

itemOf(value) ==
    CASE value.kind = "volume" -> [name |-> value.name, hostPath |-> value.hostPath]
      [] value.kind = "volumeMount" ->
            [mountPath |-> value.mountPath, name |-> value.name, readOnly |-> value.readOnly]
      [] value.kind = "envVar" -> [name |-> value.name, value |-> value.value]

Failed(doc) == [ok |-> FALSE, doc |-> doc]
Applied(doc) == [ok |-> TRUE, doc |-> doc]

\* one operation on a member of container i
ApplyToContainer(doc, i, op) ==
    LET c == doc.containers[i]
        field == op.Path[4]
        append == Len(op.Path) = 5 /\ op.Path[5] = "-"
        put(cc) == Applied([doc EXCEPT !.containers[i] = cc])
    IN  IF op.Op = "remove"
        THEN IF field = "workingDir" /\ Len(op.Path) = 4 /\ c.workingDir # ""
             THEN put([c EXCEPT !.workingDir = ""])
             ELSE Failed(doc)
        ELSE IF op.Op # "add" THEN Failed(doc)
        ELSE IF field = "volumeMounts" /\ Len(op.Path) = 4 /\ op.Value.kind = "array"
        THEN put([c EXCEPT !.volumeMounts = Member(<<>>)])
        ELSE IF field = "env" /\ Len(op.Path) = 4 /\ op.Value.kind = "array"
        THEN put([c EXCEPT !.env = Member(<<>>)])
        ELSE IF field = "volumeMounts" /\ append /\ c.volumeMounts.present
        THEN put([c EXCEPT !.volumeMounts.items = Append(@, itemOf(op.Value))])
        ELSE IF field = "env" /\ append /\ c.env.present
        THEN put([c EXCEPT !.env.items = Append(@, itemOf(op.Value))])
        ELSE Failed(doc)

\* one operation on the pod document; an add below a missing parent fails
ApplyOperation(doc, op) ==
    LET path == op.Path
    IN  IF Len(path) < 2 \/ path[1] # "spec" THEN Failed(doc)
        ELSE IF path[2] = "containers"
        THEN IF Len(path) >= 4 /\ containerAt(doc, path[3]) # 0
             THEN ApplyToContainer(doc, containerAt(doc, path[3]), op)
             ELSE Failed(doc)
        ELSE IF op.Op # "add" THEN Failed(doc)
        ELSE IF path = <<"spec", "volumes">> /\ op.Value.kind = "array"
        THEN Applied([doc EXCEPT !.volumes = Member(<<>>)])
        ELSE IF path = <<"spec", "volumes", "-">> /\ doc.volumes.present
        THEN Applied([doc EXCEPT !.volumes.items = Append(@, itemOf(op.Value))])
        ELSE IF path = <<"spec", "nodeSelector">> /\ op.Value.kind = "object"
        THEN Applied([doc EXCEPT !.nodeSelector = Member(<<>>)])
        ELSE IF path[2] = "nodeSelector" /\ Len(path) = 3 /\ doc.nodeSelector.present
        THEN Applied([doc EXCEPT !.nodeSelector.items =
                         (Unescape(path[3]) :> op.Value.s) @@ @])
        ELSE Failed(doc)

RECURSIVE ApplyPatch(_, _)
\* the operations in emission order; the first failure rejects the whole patch
ApplyPatch(doc, ops) ==
    IF ops = <<>> THEN Applied(doc)
    ELSE LET r == ApplyOperation(doc, Head(ops))
         IN  IF r.ok THEN ApplyPatch(r.doc, Tail(ops)) ELSE r

-----------------------------------------------------------------------------
(* The requests and policies the model draws from *)

SeqsUpTo(S, n) == UNION {[1..k -> S] : k \in 0..n}

NoLabels == <<>>

\* tool-test, tool-tool-a (the prefix occurs twice), atool-a (not a prefix)
NamespaceChoices ==
    {<<"t", "o", "o", "l", "-", "t", "e", "s", "t">>,
     <<"t", "o", "o", "l", "-", "t", "o", "o", "l", "-", "a">>,
     <<"a", "t", "o", "o", "l", "-", "a">>}

LabelChoices ==
    {NoLabels,
     (MountConfigLabel :> MountAll),
     (MountConfigLabel :> MountNone),
     (MountConfigLabel :> "some")}

VolumeChoices ==
    {[name |-> "home", hostPath |-> HostPath("/data/project", "Directory")],
     [name |-> "home", hostPath |-> HostPath("/etc/ldap", "Directory")],
     [name |-> "token", hostPath |-> HostPath("/data/project", "Directory")],
     [name |-> "token", hostPath |-> NoHostPath]}

HomeMount == [mountPath |-> "/data/project", name |-> "home", readOnly |-> FALSE]
TokenMount == [mountPath |-> "/var/run/secrets", name |-> "token", readOnly |-> TRUE]
EnvVar(name) == [name |-> name, value |-> <<"original value">>]

ContainerChoices ==
    {[env |-> Missing, workingDir |-> "", volumeMounts |-> Missing],
     [env |-> Member(<<>>), workingDir |-> "/some/path",
      volumeMounts |-> Member(<<TokenMount>>)],
     [env |-> Member(<<EnvVar("HOME")>>), workingDir |-> "/some/path",
      volumeMounts |-> Member(<<HomeMount>>)],
     [env |-> Member(<<EnvVar("NO_HOME")>>), workingDir |-> "/some/path",
      volumeMounts |-> Member(<<HomeMount>>)],
     [env |-> Member(<<EnvVar("HOME"), EnvVar("NO_HOME")>>), workingDir |-> "",
      volumeMounts |-> Member(<<>>)]}

NodeSelectorChoices ==
    {Missing, Member(("foo" :> "bar")), Member((NfsMountedKey :> "true"))}

Docs ==
    [labels : LabelChoices,
     volumes : {Missing} \cup {Member(vs) : vs \in SeqsUpTo(VolumeChoices, MaxVolumes)},
     containers : SeqsUpTo(ContainerChoices, MaxContainers),
     nodeSelector : NodeSelectorChoices]

Truncated == [labels |-> NoLabels, volumes |-> Missing, containers |-> <<>>,
              nodeSelector |-> Missing]

\* req.Object.Raw: a pod document, or bytes that do not decode
Objects ==
    {[wellFormed |-> TRUE, doc |-> d] : d \in Docs}
    \cup {[wellFormed |-> FALSE, doc |-> Truncated]}

Requests(uid) == [UID : {uid}, Namespace : NamespaceChoices, Object : Objects]

HomePolicy == [Name |-> "home", Path |-> "/data/project", Type |-> "Directory",
               ReadOnly |-> FALSE]
LdapPolicy == [Name |-> "etc-ldap", Path |-> "/etc/ldap", Type |-> "Directory",
               ReadOnly |-> TRUE]

Policies == {<<HomePolicy, LdapPolicy>>, <<HomePolicy>>}

-----------------------------------------------------------------------------
(* The state machine: one request handled and, when allowed, reinvoked on its
   patched pod *)

NoLocal == [set |-> FALSE]
NoReview == [set |-> FALSE]
IdleReview == [set |-> FALSE, Response |-> NoResponse]
Review(request, response) == [set |-> TRUE, Request |-> request, Response |-> response]

\* one request received by worker w1; w2 stays idle
OneRequest ==
    /\ Volumes \in Policies
    /\ \E r \in Requests("w1") :
          review = [w \in Workers |->
                       IF w = "w1" THEN Review(r, NoResponse) ELSE IdleReview]
    /\ pc = [w \in Workers |-> IF w = "w1" THEN "received" ELSE "idle"]
    /\ local = [w \in Workers |-> NoLocal]
    /\ prev = [w \in Workers |-> NoReview]

\* json.Marshal of patch operations built from strings, structs and maps succeeds
Init == OneRequest /\ marshalFails = FALSE

\* the same with the error branch of json.Marshal taken or not
InitEnc == OneRequest /\ marshalFails \in BOOLEAN

\* the whole of HandleAdmission(review)
Handle(w) ==
    /\ pc[w] = "received"
    /\ review' = [review EXCEPT ![w].Response =
                     HandleAdmission(Volumes, review[w].Request, marshalFails)]
    /\ Volumes' = volumesAfter(Volumes, review[w].Request)
    /\ pc' = [pc EXCEPT ![w] = "done"]
    /\ UNCHANGED <<marshalFails, local, prev>>

\* the API server applies the patch of an allowed response and admits the patched
\* pod again, in the same namespace
Reinvoke(w) ==
    /\ pc[w] = "done"
    /\ ~prev[w].set
    /\ review[w].Response.Allowed
    /\ ~review[w].Response.Patch.isNil
    /\ LET r == ApplyPatch(review[w].Request.Object.doc,
                           DecodePatch(review[w].Response.Patch))
       IN  /\ r.ok
           /\ review' = [review EXCEPT ![w] =
                            Review([review[w].Request EXCEPT !.Object.doc = r.doc],
                                   NoResponse)]
    /\ prev' = [prev EXCEPT ![w] = review[w]]
    /\ pc' = [pc EXCEPT ![w] = "received"]
    /\ UNCHANGED <<Volumes, marshalFails, local>>

Next == \E w \in Workers : Handle(w) \/ Reinvoke(w)

Spec == Init /\ [][Next]_vars

SpecEnc == InitEnc /\ [][Next]_vars

-----------------------------------------------------------------------------
(* Two requests handled in parallel: HandleAdmission in steps that interleave *)

ParDocs ==
    [labels : {NoLabels, (MountConfigLabel :> MountNone)},
     volumes : {Missing,
                Member(<<[name |-> "home",
                          hostPath |-> HostPath("/data/project", "Directory")]>>),
                Member(<<[name |-> "home",
                          hostPath |-> HostPath("/etc/ldap", "Directory")]>>)},
     containers : {<<>>,
                   <<[env |-> Missing, workingDir |-> "", volumeMounts |-> Missing]>>,
                   <<[env |-> Member(<<EnvVar("NO_HOME")>>), workingDir |-> "/some/path",
                      volumeMounts |-> Member(<<HomeMount>>)]>>},
     nodeSelector : {Missing}]

ParNamespaces ==
    {<<"t", "o", "o", "l", "-", "t", "e", "s", "t">>, <<"a", "t", "o", "o", "l", "-", "a">>}

ParRequests(uid) ==
    [UID : {uid}, Namespace : ParNamespaces,
     Object : {[wellFormed |-> TRUE, doc |-> d] : d \in ParDocs}]

InitPar ==
    /\ Volumes \in Policies
    /\ marshalFails = FALSE
    /\ review \in {[w \in Workers |-> Review(rs[w], NoResponse)] :
                      rs \in {f \in [Workers -> ParRequests("w1") \cup ParRequests("w2")] :
                                 \A w \in Workers : f[w].UID = w}}
    /\ pc = [w \in Workers |-> "received"]
    /\ local = [w \in Workers |-> NoLocal]
    /\ prev = [w \in Workers |-> NoReview]

\* decoding, the three denials and the volumes initialization
Validate(w) ==
    /\ pc[w] = "received"
    /\ LET v == validate(review[w].Request)
       IN  IF v.denied
           THEN /\ review' = [review EXCEPT ![w].Response = v.response]
                /\ pc' = [pc EXCEPT ![w] = "done"]
                /\ UNCHANGED local
           ELSE /\ local' = [local EXCEPT ![w] =
                                [set |-> TRUE, pod |-> v.pod,
                                 mountConfig |-> v.mountConfig, patches |-> v.patches]]
                /\ pc' = [pc EXCEPT ![w] =
                             IF v.mountConfig = MountNone THEN "respond" ELSE "mounts"]
                /\ UNCHANGED review
    /\ UNCHANGED <<Volumes, marshalFails, prev>>

\* the volumeMounts initialization and the loop over admission.Volumes
BuildMounts(w) ==
    /\ pc[w] = "mounts"
    /\ local' = [local EXCEPT ![w].patches =
                    @ \o volumeMountsInit(local[w].pod)
                      \o volumePatches(Volumes, local[w].pod)]
    /\ Volumes' = volumesAfter(Volumes, review[w].Request)
    /\ pc' = [pc EXCEPT ![w] = "env"]
    /\ UNCHANGED <<marshalFails, review, prev>>

\* the env loop and the nodeSelector
BuildEnv(w) ==
    /\ pc[w] = "env"
    /\ local' = [local EXCEPT ![w].patches =
                    @ \o envPatches(local[w].pod, review[w].Request.Namespace)
                      \o nodeSelectorPatches(local[w].pod)]
    /\ pc' = [pc EXCEPT ![w] = "respond"]
    /\ UNCHANGED <<Volumes, marshalFails, review, prev>>

\* json.Marshal and the assignment of review.Response
Respond(w) ==
    /\ pc[w] = "respond"
    /\ review' = [review EXCEPT ![w].Response =
                     IF local[w].mountConfig = MountNone
                     THEN respondNone(review[w].Request.UID, local[w].patches, marshalFails)
                     ELSE respondAll(review[w].Request.UID, local[w].patches, marshalFails)]
    /\ local' = [local EXCEPT ![w] = NoLocal]
    /\ pc' = [pc EXCEPT ![w] = "done"]
    /\ UNCHANGED <<Volumes, marshalFails, prev>>

NextPar == \E w \in Workers : Validate(w) \/ BuildMounts(w) \/ BuildEnv(w) \/ Respond(w)

SpecPar == InitPar /\ [][NextPar]_vars

-----------------------------------------------------------------------------
(* What the claims speak about, read off the state without the model's operators *)

Handled(w) == pc[w] = "done"
RequestOf(w) == review[w].Request
ResponseOf(w) == review[w].Response
DocOf(w) == review[w].Request.Object.doc
Decodable(w) == review[w].Request.Object.wellFormed
PatchOf(w) == DecodePatch(review[w].Response.Patch)

IsDeny(r) == ~r.Allowed /\ r.Patch.isNil /\ r.PatchType = ""
IsAllow(r) == r.Allowed /\ ~r.Patch.isNil /\ r.PatchType = "JSONPatch"

StartsWithTool(ns) ==
    /\ Len(ns) >= 5
    /\ ns[1] = "t" /\ ns[2] = "o" /\ ns[3] = "o" /\ ns[4] = "l" /\ ns[5] = "-"

ForeignHostPath(v) ==
    v.hostPath.set /\ ~(v.name = "home" /\ v.hostPath.path = "/data/project")

HasForeignHostPath(doc) ==
    \E k \in 1..Len(doc.volumes.items) : ForeignHostPath(doc.volumes.items[k])

MountMode(doc) ==
    IF "toolforge.org/mount-storage" \in DOMAIN doc.labels
    THEN doc.labels["toolforge.org/mount-storage"]
    ELSE "all"

Validated(w) ==
    /\ Decodable(w)
    /\ MountMode(DocOf(w)) \in {"all", "none"}
    /\ StartsWithTool(RequestOf(w).Namespace)
    /\ ~HasForeignHostPath(DocOf(w))

-----------------------------------------------------------------------------
\* C1 Security invariant: a decodable request whose pod declares a hostPath volume
\* other than (home, /data/project) is denied and gets no patch, whatever the label,
\* namespace, policy, position of the volume and other fields are.
C1_ForeignHostPathDenied ==
    \A w \in Workers :
        (Handled(w) /\ Decodable(w) /\ HasForeignHostPath(DocOf(w)))
            => (~ResponseOf(w).Allowed /\ ResponseOf(w).Patch.isNil)

\* a pod denied by the volume loop itself: valid label, tool namespace, the offending
\* volume second after the permitted home volume
C1_Witness ==
    \E w \in Workers :
        /\ Handled(w) /\ Decodable(w)
        /\ MountMode(DocOf(w)) = "none"
        /\ StartsWithTool(RequestOf(w).Namespace)
        /\ Len(DocOf(w).volumes.items) = 2
        /\ ~ForeignHostPath(DocOf(w).volumes.items[1])
        /\ DocOf(w).volumes.items[1].hostPath.set
        /\ ForeignHostPath(DocOf(w).volumes.items[2])
        /\ DocOf(w).volumes.items[2].name = "home"
        /\ IsDeny(ResponseOf(w))
        /\ ResponseOf(w).Message[2] = "1"

\* the second invocation of a reinvoked request has ended
Reinvoked(w) == Handled(w) /\ prev[w].set

\* C2 Idempotency: when a pod was allowed with patch p, applying p and running
\* HandleAdmission again with the same namespace and policy yields Allow with an empty
\* patch, or for mount-mode none at most the volumes initialization again; nothing the
\* first run added is added again.
C2_Idempotent ==
    \A w \in Workers : Reinvoked(w) =>
        /\ IsAllow(ResponseOf(w))
        /\ PatchOf(w) \in
              IF MountMode(DocOf(w)) = "none"
              THEN {<<>>, <<[Op |-> "add", Path |-> <<"spec", "volumes">>,
                             Value |-> [kind |-> "array"]]>>}
              ELSE {<<>>}

\* C3 Namespace gate: a decodable request whose namespace does not start with "tool-"
\* is not allowed and carries no patch, whatever the pod is.
C3_NonToolNamespaceDenied ==
    \A w \in Workers :
        (Handled(w) /\ Decodable(w) /\ ~StartsWithTool(RequestOf(w).Namespace))
            => (~ResponseOf(w).Allowed /\ ResponseOf(w).Patch.isNil)

\* a pod that passes every other check, in a namespace that contains "tool-" later
C3_Witness ==
    \E w \in Workers :
        /\ Handled(w) /\ Decodable(w)
        /\ ~StartsWithTool(RequestOf(w).Namespace)
        /\ MountMode(DocOf(w)) = "all"
        /\ ~HasForeignHostPath(DocOf(w))
        /\ Len(DocOf(w).containers) > 0
        /\ IsDeny(ResponseOf(w))
        /\ ResponseOf(w).Message = <<"Only tools can have tool volumes mounted to them">>

\* C4 Outcome characterisation: for a decodable request, serialization succeeding, the
\* outcome is exactly one of Allow and Deny, and it is Allow (Allowed, JSON-Patch type,
\* the serialized patch) iff the defaulted label is "all" or "none", the namespace
\* starts with "tool-" and no volume is a foreign hostPath; otherwise Deny, no patch.
C4_OutcomeCharacterised ==
    \A w \in Workers :
        (Handled(w) /\ Decodable(w) /\ ~marshalFails) =>
            /\ IsAllow(ResponseOf(w)) # IsDeny(ResponseOf(w))
            /\ IsAllow(ResponseOf(w)) <=> Validated(w)

\* a pod allowed with the label absent, so that the default decides, and patched
C4_Witness ==
    \E w \in Workers :
        /\ Handled(w) /\ Validated(w) /\ ~marshalFails
        /\ "toolforge.org/mount-storage" \notin DOMAIN DocOf(w).labels
        /\ IsAllow(ResponseOf(w))
        /\ Len(PatchOf(w)) > 0

\* C5 Mount-mode none: a validated request labelled "none" is allowed, and its patch is
\* exactly <<add /spec/volumes = []>> when the pod declares zero volumes and empty
\* otherwise: no volume, mount, env, workingDir or nodeSelector operation.
C5_NonePatch ==
    \A w \in Workers :
        (Handled(w) /\ Validated(w) /\ MountMode(DocOf(w)) = "none") =>
            /\ ResponseOf(w).Allowed
            /\ PatchOf(w) =
                 IF Len(DocOf(w).volumes.items) = 0
                 THEN <<[Op |-> "add", Path |-> <<"spec", "volumes">>,
                         Value |-> [kind |-> "array"]]>>
                 ELSE <<>>

\* a "none" pod with an empty volumes array and containers that would get mounts and
\* env on the "all" path
C5_Witness ==
    \E w \in Workers :
        /\ Handled(w) /\ Validated(w) /\ MountMode(DocOf(w)) = "none"
        /\ DocOf(w).volumes.present /\ Len(DocOf(w).volumes.items) = 0
        /\ ~DocOf(w).nodeSelector.present
        /\ Len(DocOf(w).containers) = 2
        /\ IsAllow(ResponseOf(w))
        /\ Len(PatchOf(w)) = 1

\* the "all" path reached its end: validated, label absent or "all"
AllPath(w) == Handled(w) /\ Validated(w) /\ MountMode(DocOf(w)) = "all"

Defines(c, name) == \E k \in 1..Len(c.env.items) : c.env.items[k].name = name

\* positions of the patch operations of container i on its env entry `name`
EnvOps(ops, i, name) ==
    {k \in 1..Len(ops) :
        /\ Len(ops[k].Path) >= 4
        /\ ops[k].Path[2] = "containers" /\ ops[k].Path[3] = ToString(i - 1)
        /\ ops[k].Path[4] = "env"
        /\ ops[k].Value.kind = "envVar" /\ ops[k].Value.name = name}

AppendsTo(op, i, field) ==
    op.Op = "add" /\ op.Path = <<"spec", "containers", ToString(i - 1), field, "-">>

WorkingDirRemovals(ops, i) ==
    {k \in 1..Len(ops) :
        /\ ops[k].Op = "remove"
        /\ ops[k].Path = <<"spec", "containers", ToString(i - 1), "workingDir">>}

\* C6 HOME precedence: on the "all" path, container i gets an add of HOME at env/-
\* exactly when it defines neither HOME nor NO_HOME; no operation of any kind names
\* HOME for a container that defines HOME or NO_HOME; and workingDir is removed
\* exactly when the container defines NO_HOME and has a non-empty workingDir.
C6_HomePrecedence ==
    \A w \in Workers : AllPath(w) =>
        \A i \in 1..Len(DocOf(w).containers) :
            LET c == DocOf(w).containers[i]
                home == EnvOps(PatchOf(w), i, "HOME")
                skip == Defines(c, "HOME") \/ Defines(c, "NO_HOME")
            IN  /\ Cardinality(home) = IF skip THEN 0 ELSE 1
                /\ \A k \in home : AppendsTo(PatchOf(w)[k], i, "env")
                /\ Cardinality(WorkingDirRemovals(PatchOf(w), i)) =
                      IF Defines(c, "NO_HOME") /\ c.workingDir # "" THEN 1 ELSE 0
                /\ \A k \in 1..Len(PatchOf(w)) : PatchOf(w)[k].Op \in {"add", "remove"}

\* two containers on the "all" path: one with NO_HOME and a workingDir, which loses
\* the workingDir and gets no HOME, and one with neither variable, which gets HOME
C6_Witness ==
    \E w \in Workers :
        /\ AllPath(w) /\ IsAllow(ResponseOf(w))
        /\ Len(DocOf(w).containers) = 2
        /\ Defines(DocOf(w).containers[1], "NO_HOME")
        /\ ~Defines(DocOf(w).containers[1], "HOME")
        /\ DocOf(w).containers[1].workingDir # ""
        /\ WorkingDirRemovals(PatchOf(w), 1) # {}
        /\ ~Defines(DocOf(w).containers[2], "NO_HOME")
        /\ ~Defines(DocOf(w).containers[2], "HOME")
        /\ EnvOps(PatchOf(w), 2, "HOME") # {}

\* the namespace without its first five characters
Tenant(ns) == SubSeq(ns, 6, Len(ns))

\* C7 TOOL_DATA_DIR totality: in every Allow on the "all" path each container i gets
\* exactly one add at env/- of TOOL_DATA_DIR = /data/project/{tenant}, tenant being the
\* namespace without its leading "tool-" only, whether or not it defines HOME or
\* NO_HOME; a HOME added by the same patch has the same value.
C7_ToolDataDir ==
    \A w \in Workers : (AllPath(w) /\ ResponseOf(w).Allowed) =>
        \A i \in 1..Len(DocOf(w).containers) :
            LET ops == PatchOf(w)
                tdd == EnvOps(ops, i, "TOOL_DATA_DIR")
                value == <<"/data/project/">> \o Tenant(RequestOf(w).Namespace)
            IN  /\ Cardinality(tdd) = 1
                /\ \A k \in tdd : AppendsTo(ops[k], i, "env") /\ ops[k].Value.value = value
                /\ \A k \in EnvOps(ops, i, "HOME") : ops[k].Value.value = value

\* namespace tool-tool-a, one container that defines HOME and one that defines nothing
C7_Witness ==
    \E w \in Workers :
        /\ AllPath(w) /\ IsAllow(ResponseOf(w))
        /\ Index(Tenant(RequestOf(w).Namespace), <<"t", "o", "o", "l", "-">>) = 1
        /\ Len(DocOf(w).containers) = 2
        /\ Defines(DocOf(w).containers[1], "HOME")
        /\ EnvOps(PatchOf(w), 1, "TOOL_DATA_DIR") # {}
        /\ ~DocOf(w).containers[2].env.present
        /\ EnvOps(PatchOf(w), 2, "HOME") # {}

\* whether the document has the member a path names
HasMember(doc, path) ==
    IF path = <<"spec", "volumes">> THEN doc.volumes.present
    ELSE IF path = <<"spec", "nodeSelector">> THEN doc.nodeSelector.present
    ELSE \E i \in 1..Len(doc.containers) :
            \/ path = <<"spec", "containers", ToString(i - 1), "volumeMounts">>
               /\ doc.containers[i].volumeMounts.present
            \/ path = <<"spec", "containers", ToString(i - 1), "env">>
               /\ doc.containers[i].env.present

Parent(path) == SubSeq(path, 1, Len(path) - 1)

\* operation k needs its parent: an append, or the add of a nodeSelector key
NeedsParent(op) ==
    \/ op.Path[Len(op.Path)] = "-"
    \/ Len(op.Path) = 3 /\ op.Path[2] = "nodeSelector"

CreatesEmpty(op, path) ==
    op.Op = "add" /\ op.Path = path /\ op.Value.kind \in {"array", "object"}

\* C8 Patch applicability ordering: in every Allow patch, each append to volumes,
\* volumeMounts or env, and the add of the nfs-mounted key, finds its parent: the input
\* pod has it or an earlier operation of the patch adds it empty; so the operations
\* apply in emission order.
C8_ParentsExist ==
    \A w \in Workers : (Handled(w) /\ Decodable(w) /\ ResponseOf(w).Allowed) =>
        LET ops == PatchOf(w)
        IN  /\ \A k \in 1..Len(ops) : NeedsParent(ops[k]) =>
                  \/ HasMember(DocOf(w), Parent(ops[k].Path))
                  \/ \E j \in 1..(k - 1) : CreatesEmpty(ops[j], Parent(ops[k].Path))
            /\ \A k \in 1..Len(ops) :
                  LET r == ApplyPatch(DocOf(w), SubSeq(ops, 1, k - 1))
                  IN  r.ok /\ (NeedsParent(ops[k]) => HasMember(r.doc, Parent(ops[k].Path)))

\* a pod with no volumes, no nodeSelector and a container with neither volumeMounts nor
\* env: every parent has to be created by the patch
C8_Witness ==
    \E w \in Workers :
        /\ AllPath(w) /\ IsAllow(ResponseOf(w))
        /\ ~DocOf(w).volumes.present
        /\ ~DocOf(w).nodeSelector.present
        /\ Len(DocOf(w).containers) = 2
        /\ ~DocOf(w).containers[2].env.present
        /\ ~DocOf(w).containers[2].volumeMounts.present
        /\ \E k \in 1..Len(PatchOf(w)) : AppendsTo(PatchOf(w)[k], 2, "volumeMounts")
        /\ \E k \in 1..Len(PatchOf(w)) : AppendsTo(PatchOf(w)[k], 2, "env")

\* C9 Serialization failure is a denial on both build paths: whenever json.Marshal of
\* the built patch list fails, the response left in the review is a denial (not
\* allowed, no patch, no patch type) that carries the encoding error.
C9_MarshalFailureDenied ==
    \A w \in Workers : (Handled(w) /\ Validated(w) /\ marshalFails) =>
        /\ IsDeny(ResponseOf(w))
        /\ ResponseOf(w).Message = <<"json: unsupported value">>

\* C10 Statelessness under parallel requests: no step of HandleAdmission changes the
\* shared policy, and in every interleaving of the requests a finished request has
\* the response it gets when handled alone under that policy.
C10_Stateless ==
    [][/\ Volumes' = Volumes
       /\ \A w \in Workers :
             pc'[w] = "done" =>
                review'[w].Response =
                    HandleAdmission(Volumes, review'[w].Request, marshalFails)]_vars

\* two different requests in flight at once: w1 has been allowed on the "all" path
\* while w2, with a pod that already has the home volume, is past reading the policy
C10_Witness ==
    /\ pc["w1"] = "done" /\ IsAllow(ResponseOf("w1"))
    /\ MountMode(DocOf("w1")) = "all"
    /\ pc["w2"] = "env"
    /\ DocOf("w2").volumes.present
    /\ DocOf("w2") # DocOf("w1")

-----------------------------------------------------------------------------
(* The reference scenarios of the tests *)

TestPolicy ==
    <<[Name |-> "home", Path |-> "/data/project", Type |-> "Directory", ReadOnly |-> FALSE],
      [Name |-> "etc-ldap", Path |-> "/etc/ldap", Type |-> "Directory", ReadOnly |-> TRUE]>>

ToolTest == <<"t", "o", "o", "l", "-", "t", "e", "s", "t">>

Add(path, value) == [Op |-> "add", Path |-> path, Value |-> value]

\* the nine operations scenario 1 gets before the nodeSelector: volumes init,
\* volumeMounts init, two volume+mount pairs, env init, HOME, TOOL_DATA_DIR
Scenario1Ops ==
    <<Add(<<"spec", "volumes">>, [kind |-> "array"]),
      Add(<<"spec", "containers", "0", "volumeMounts">>, [kind |-> "array"]),
      Add(<<"spec", "volumes", "-">>,
          [kind |-> "volume", name |-> "home",
           hostPath |-> [set |-> TRUE, path |-> "/data/project", type |-> "Directory"]]),
      Add(<<"spec", "containers", "0", "volumeMounts", "-">>,
          [kind |-> "volumeMount", mountPath |-> "/data/project", name |-> "home",
           readOnly |-> FALSE]),
      Add(<<"spec", "volumes", "-">>,
          [kind |-> "volume", name |-> "etc-ldap",
           hostPath |-> [set |-> TRUE, path |-> "/etc/ldap", type |-> "Directory"]]),
      Add(<<"spec", "containers", "0", "volumeMounts", "-">>,
          [kind |-> "volumeMount", mountPath |-> "/etc/ldap", name |-> "etc-ldap",
           readOnly |-> TRUE]),
      Add(<<"spec", "containers", "0", "env">>, [kind |-> "array"]),
      Add(<<"spec", "containers", "0", "env", "-">>,
          [kind |-> "envVar", name |-> "HOME",
           value |-> <<"/data/project/", "t", "e", "s", "t">>]),
      Add(<<"spec", "containers", "0", "env", "-">>,
          [kind |-> "envVar", name |-> "TOOL_DATA_DIR",
           value |-> <<"/data/project/", "t", "e", "s", "t">>])>>

NodeSelectorInitOp == Add(<<"spec", "nodeSelector">>, [kind |-> "object"])

NfsMountedOp ==
    Add(<<"spec", "nodeSelector", "kubernetes.wmcloud.org~1nfs-mounted">>,
        [kind |-> "string", s |-> "true"])

\* the pod of scenario 1: namespace tool-test, label unset, zero volumes, one container
\* with no env, no volumeMounts and no workingDir, the two-volume policy
Scenario1(w) ==
    /\ Handled(w) /\ Decodable(w)
    /\ Volumes = TestPolicy
    /\ RequestOf(w).Namespace = ToolTest
    /\ DOMAIN DocOf(w).labels = {}
    /\ Len(DocOf(w).volumes.items) = 0
    /\ Len(DocOf(w).containers) = 1
    /\ ~DocOf(w).containers[1].env.present
    /\ Len(DocOf(w).containers[1].volumeMounts.items) = 0
    /\ DocOf(w).containers[1].workingDir = ""

\* C11 as stated: the pod of scenario 1 is allowed with exactly 10 operations, among
\* them both the nodeSelector initialization and the nfs-mounted label.
C11_AsStated ==
    \A w \in Workers : Scenario1(w) =>
        /\ IsAllow(ResponseOf(w))
        /\ Len(PatchOf(w)) = 10
        /\ \E j \in 1..Len(PatchOf(w)) : PatchOf(w)[j] = NodeSelectorInitOp
        /\ \E j \in 1..Len(PatchOf(w)) : PatchOf(w)[j] = NfsMountedOp

\* C11 Reference scenario 1, amended: the pod of scenario 1 is allowed; with a
\* nodeSelector that lacks the nfs-mounted key, as in the test, the patch has exactly
\* 10 operations: volumes init, volumeMounts init, two volume+mount pairs, env init,
\* HOME, TOOL_DATA_DIR and the nfs-mounted label, with no nodeSelector init; with no
\* nodeSelector the init comes before the label as an eleventh operation; with the
\* key already there the patch has the first nine only.
C11_Scenario1 ==
    \A w \in Workers : Scenario1(w) =>
        /\ IsAllow(ResponseOf(w))
        /\ PatchOf(w) =
              IF ~DocOf(w).nodeSelector.present
              THEN Scenario1Ops \o <<NodeSelectorInitOp, NfsMountedOp>>
              ELSE IF "kubernetes.wmcloud.org/nfs-mounted"
                         \notin DOMAIN DocOf(w).nodeSelector.items
              THEN Scenario1Ops \o <<NfsMountedOp>>
              ELSE Scenario1Ops
        /\ Len(Scenario1Ops) = 9

\* the pod of TestServerMountsAllVolumesWhenNoneExist: no volumes member, nodeSelector
\* foo=bar, and a patch of 10 operations
C11_Witness ==
    \E w \in Workers :
        /\ Scenario1(w)
        /\ ~DocOf(w).volumes.present
        /\ DocOf(w).nodeSelector.present
        /\ DOMAIN DocOf(w).nodeSelector.items = {"foo"}
        /\ IsAllow(ResponseOf(w))
        /\ Len(PatchOf(w)) = 10

-----------------------------------------------------------------------------
(* The "all" patch as the six steps describe it, computed from the pod document *)

RECURSIVE CatUpTo(_, _)
\* parts[1] \o ... \o parts[n]
CatUpTo(parts, n) == IF n = 0 THEN <<>> ELSE CatUpTo(parts, n - 1) \o parts[n]

When(cond, op) == IF cond THEN <<op>> ELSE <<>>

ContainerPath(i, rest) == <<"spec", "containers", ToString(i - 1)>> \o rest

DocHasVolume(doc, name) ==
    \E k \in 1..Len(doc.volumes.items) : doc.volumes.items[k].name = name

DocHasMountAt(c, path) ==
    \E k \in 1..Len(c.volumeMounts.items) : c.volumeMounts.items[k].mountPath = path

\* step 3 for one policy volume: the volume, then its mounts in container order
Step3(doc, v) ==
    IF DocHasVolume(doc, v.Name)
    THEN <<>>
    ELSE <<Add(<<"spec", "volumes", "-">>,
               [kind |-> "volume", name |-> v.Name,
                hostPath |-> [set |-> TRUE, path |-> v.Path, type |-> v.Type]])>>
         \o CatUpTo([i \in 1..Len(doc.containers) |->
                       When(~DocHasMountAt(doc.containers[i], v.Path),
                            Add(ContainerPath(i, <<"volumeMounts", "-">>),
                                [kind |-> "volumeMount", mountPath |-> v.Path,
                                 name |-> v.Name, readOnly |-> v.ReadOnly]))],
                    Len(doc.containers))

\* step 4 for container i: env init, workingDir remove, HOME, TOOL_DATA_DIR
Step4(doc, i, ns) ==
    LET c == doc.containers[i]
        home == <<"/data/project/">> \o Tenant(ns)
    IN  When(~c.env.present, Add(ContainerPath(i, <<"env">>), [kind |-> "array"]))
        \o When(Defines(c, "NO_HOME") /\ c.workingDir # "",
                [Op |-> "remove", Path |-> ContainerPath(i, <<"workingDir">>),
                 Value |-> [kind |-> "omitted"]])
        \o When(~Defines(c, "HOME") /\ ~Defines(c, "NO_HOME"),
                Add(ContainerPath(i, <<"env", "-">>),
                    [kind |-> "envVar", name |-> "HOME", value |-> home]))
        \o <<Add(ContainerPath(i, <<"env", "-">>),
                 [kind |-> "envVar", name |-> "TOOL_DATA_DIR", value |-> home])>>

ExpectedAllPatch(doc, policy, ns) ==
    LET n == Len(doc.containers)
    IN  When(Len(doc.volumes.items) = 0, Add(<<"spec", "volumes">>, [kind |-> "array"]))
        \o CatUpTo([i \in 1..n |->
                      When(Len(doc.containers[i].volumeMounts.items) = 0,
                           Add(ContainerPath(i, <<"volumeMounts">>), [kind |-> "array"]))],
                   n)
        \o CatUpTo([v \in 1..Len(policy) |-> Step3(doc, policy[v])], Len(policy))
        \o CatUpTo([i \in 1..n |-> Step4(doc, i, ns)], n)
        \o When(~doc.nodeSelector.present, NodeSelectorInitOp)
        \o When(\/ ~doc.nodeSelector.present
                \/ "kubernetes.wmcloud.org/nfs-mounted" \notin DOMAIN doc.nodeSelector.items,
                NfsMountedOp)

\* the pod of TestServerMountsAllVolumesIfSomeExist: one unrelated secret volume and
\* its mount, an empty env, no nodeSelector, the two-volume policy
Scenario2(w) ==
    /\ AllPath(w) /\ Volumes = TestPolicy
    /\ Len(DocOf(w).volumes.items) = 1
    /\ ~DocOf(w).volumes.items[1].hostPath.set
    /\ DocOf(w).volumes.items[1].name \notin {"home", "etc-ldap"}
    /\ Len(DocOf(w).containers) = 1
    /\ Len(DocOf(w).containers[1].volumeMounts.items) = 1
    /\ DocOf(w).containers[1].volumeMounts.items[1].mountPath
          \notin {"/data/project", "/etc/ldap"}
    /\ DocOf(w).containers[1].env.present
    /\ Len(DocOf(w).containers[1].env.items) = 0
    /\ ~DocOf(w).nodeSelector.present

\* the pod of TestServerMountsNeededVolumes: HOME set, the home hostPath volume and
\* its mount present, no nodeSelector, the two-volume policy
Scenario3(w) ==
    /\ AllPath(w) /\ Volumes = TestPolicy
    /\ Len(DocOf(w).volumes.items) = 1
    /\ DocOf(w).volumes.items[1].name = "home"
    /\ Len(DocOf(w).containers) = 1
    /\ Len(DocOf(w).containers[1].volumeMounts.items) = 1
    /\ DocOf(w).containers[1].volumeMounts.items[1].mountPath = "/data/project"
    /\ Len(DocOf(w).containers[1].env.items) = 1
    /\ Defines(DocOf(w).containers[1], "HOME")
    /\ ~DocOf(w).nodeSelector.present

\* C12 Exact content and order of the "all" patch: for every validated pod and policy
\* the patch is the concatenation of (1) the volumes init iff the pod has no volumes,
\* (2) per container the volumeMounts init iff it has no mounts, (3) per policy volume
\* whose name no pod volume has, the volume and then one mount per container without a
\* mount at its path, (4) per container env init, workingDir remove, HOME,
\* TOOL_DATA_DIR, (5) the nodeSelector init iff absent, (6) the nfs-mounted key iff
\* absent; so the pod of scenario 2 gets 8 operations and that of scenario 3 gets 5.
C12_ExactPatch ==
    \A w \in Workers : (AllPath(w) /\ ~marshalFails) =>
        /\ IsAllow(ResponseOf(w))
        /\ PatchOf(w) = ExpectedAllPatch(DocOf(w), Volumes, RequestOf(w).Namespace)
        /\ Scenario2(w) => Len(PatchOf(w)) = 8
        /\ Scenario3(w) => Len(PatchOf(w)) = 5

\* two containers and a pod without a volume named home: the first container already
\* has a mount at /data/project and gets none, the second gets one after the volume
C12_Witness ==
    \E w \in Workers :
        /\ AllPath(w) /\ IsAllow(ResponseOf(w)) /\ Volumes = TestPolicy
        /\ Len(DocOf(w).volumes.items) = 1
        /\ ~DocHasVolume(DocOf(w), "home")
        /\ Len(DocOf(w).containers) = 2
        /\ DocHasMountAt(DocOf(w).containers[1], "/data/project")
        /\ Defines(DocOf(w).containers[1], "NO_HOME")
        /\ ~DocOf(w).containers[2].volumeMounts.present
        /\ \E k \in 1..(Len(PatchOf(w)) - 1) :
              /\ PatchOf(w)[k].Path = <<"spec", "volumes", "-">>
              /\ PatchOf(w)[k].Value.name = "home"
              /\ AppendsTo(PatchOf(w)[k + 1], 2, "volumeMounts")

=============================================================================
